---- MODULE Spec2Model ----
(***************************************************************************)
(* DuckDBManager (src/src/duckdb-manager.ts): the shared, lazily acquired  *)
(* engine connection of sql-workbench-embedded, as a state machine.        *)
(*                                                                         *)
(* One step of the model is one synchronous segment of the JavaScript      *)
(* code: from the call of a public method, or from the resumption after an *)
(* await, up to the next await.  The engine (module loader, fetch, worker, *)
(* AsyncDuckDB, connection) is an external collaborator: each of its       *)
(* promises settles in a step of its own, successfully or not.             *)
(*                                                                         *)
(* Objects are named by the id of the call that created them: acquisition  *)
(* a is the doInitialize() execution started inside call a, engine a is    *)
(* the AsyncDuckDB instance it constructs, connection a the connection it  *)
(* obtains, and setup run r the async block started by query call r.       *)
(* 0 stands for null.                                                      *)
(***************************************************************************)
EXTENDS Integers, Sequences, FiniteSets, TLC

\* ---------------------------------------------------------------- bounds
MaxCalls == 3
MaxFail == 1
MaxRows == 2
MaxRuns == 2
MaxDestroys == 2

\* ---------------------------------------------------------------- inputs
CallIds == 1..MaxCalls
Urls == {"u1", "u2"}
Sqls == {"Q"}
InitQueryLists == {<<"A", "B", "C">>, <<"X">>}
SetupStmts == {"A", "B", "C", "X"}
PartialConfigs == {[version |-> "v2"]}
DefaultConfig == [version |-> "v1", cdn |-> "c1"]
Outcomes == {"ok", "err"}
\* ... and the failures whose message holds the word CORS told apart.
AllOutcomes == {"ok", "err", "errCORS"}

\* The client modules: none, the one a page pre-loaded as window.duckdb, the one
\* import('@duckdb/duckdb-wasm') yields, and the one the CDN serves for a version.
NoModule == "none"
GlobalModule == "global"
PackageModule == "pkg"
CdnModule(version) == "cdn@" \o version

VARIABLES
  db,                   \* this.db: 0 or the engine instance
  connection,           \* this.connection: 0 or the connection
  initPromise,          \* this.initPromise: 0 or the acquisition it refers to
  config,               \* this.config
  registeredFiles,      \* this.registeredFiles
  duckdbModule,         \* this.duckdbModule: NoModule or the memoized module
  initQueriesExecuted,  \* this.initQueriesExecuted
  initQueriesPromise,   \* this.initQueriesPromise: 0 or the setup run it refers to
  initQueries,          \* this.initQueries
  windowDuckdb,         \* window.duckdb: NoModule or the module bound globally
  acq,                  \* the doInitialize() executions; while the dynamic import
                        \* is awaited, version0 is the version that was configured
                        \* when the execution started
  runs,                 \* the setup runs (async block of executeInitQueries)
  calls,                \* the query / registerFile / close calls; via is the acquisition
                        \* whose promise initialize() returned to the call (0: none),
                        \* raw the table the engine answered a query with, ret the
                        \* result the query returned
  connLog,              \* per connection, the statements submitted to it, in order
  regLog,               \* per engine and URL, the number of registerFileURL requests
  nFail,                \* engine failures so far
  embeds,               \* the Embedded instances: state, editor text, output, buttons
  embedRuns,            \* the executions of Embedded.run() that went past its guards
  managerCalls,         \* per embed, the calls its run() made to duckDBManager
  workbench             \* index.ts: allEmbeds and the close() requests of destroy()

mgr == <<db, connection, initPromise, config, registeredFiles, duckdbModule, initQueriesExecuted, initQueriesPromise, initQueries>>
procs == <<acq, runs, calls>>
logs == <<connLog, regLog>>
ui == <<embeds, embedRuns, managerCalls, workbench>>
manager == <<mgr, windowDuckdb, procs, logs, nFail>>
vars == <<mgr, windowDuckdb, procs, logs, nFail, ui>>

NoAcq == [pc |-> "unused", version0 |-> "", cdnVersion |-> "", eng |-> 0, err |-> "", cause |-> <<>>]
NoRun == [pc |-> "unused", i |-> 0, conn |-> 0, list0 |-> <<>>, sent |-> <<>>]
\* The table the engine answers a statement with: the schema fields, the number of
\* rows and, per column, the child vector (absent, or its values by row).
NoTable == [fields |-> <<>>, numRows |-> 0, numCols |-> 0, children |-> <<>>]

\* The QueryResult query() returns (executionTime left out).
NoResult == [columns |-> <<>>, rows |-> <<>>, rowCount |-> 0]

NoCall == [op |-> "none", pc |-> "idle", arg |-> "", via |-> 0, wait |-> 0, err |-> "", raw |-> NoTable, ret |-> NoResult]

\* ------------------------------------------------------------ embeds: data
\* The embeds on the page.
EmbedIds == {1, 2}
RunIds == 1..MaxRuns

\* Editor texts: empty, only whitespace, a statement without file paths, and a
\* statement that names two files. InitialCodes are the texts the embeds start with.
Codes == {"", "  ", "SELECT 1", "SELECT * FROM 'a.csv' JOIN 'b.csv'"}
InitialCodes == {"", "SELECT * FROM 'a.csv' JOIN 'b.csv'"}

\* `sql.trim()`
Trim(sql) == IF sql \in {"", "  "} THEN "" ELSE sql

\* resolvePathsInSQL(sql): the file paths of the statement, in order
PathsIn(sql) ==
  IF sql = "SELECT * FROM 'a.csv' JOIN 'b.csv'" THEN <<"a.csv", "b.csv">>
  ELSE <<>>

\* An Embedded as its constructor leaves it: hasUi says that the references to
\* the container, the editor, the output and the buttons are set.
NewEmbed(code) ==
  [state |-> "idle", code |-> code, initialCode |-> code, output |-> "hidden", resetHidden |-> TRUE,
   hasUi |-> TRUE, runDisabled |-> FALSE, resetDisabled |-> FALSE, destroyed |-> FALSE]

NoEmbedRun == [embed |-> 0, pc |-> "unused", sql |-> "", todo |-> <<>>]
NoManagerCalls == [configure |-> 0, registerFile |-> 0, query |-> 0]
NewWorkbench == [allEmbeds |-> <<1, 2>>, destroys |-> 0, closeRequests |-> 0, closePending |-> 0, logged |-> 0, unhandled |-> 0]

\* The page after SQLWorkbench.init(): every embed constructed (on elements of the
\* same text) and tracked, none run.
InitUi(codes) ==
  /\ \E code \in codes : embeds = [e \in EmbedIds |-> NewEmbed(code)]
  /\ embedRuns = [r \in RunIds |-> NoEmbedRun]
  /\ managerCalls = [e \in EmbedIds |-> NoManagerCalls]
  /\ workbench = NewWorkbench

\* ------------------------------------------------------------ manager: Init
InitManager ==
  /\ db = 0
  /\ connection = 0
  /\ initPromise = 0
  /\ config = DefaultConfig
  /\ registeredFiles = {}
  /\ duckdbModule = NoModule
  /\ initQueriesExecuted = FALSE
  /\ initQueriesPromise = 0
  /\ initQueries = <<>>
  /\ windowDuckdb \in {NoModule, GlobalModule}
  /\ acq = [a \in CallIds |-> NoAcq]
  /\ runs = [r \in CallIds |-> NoRun]
  /\ calls = [c \in CallIds |-> NoCall]
  /\ connLog = [k \in CallIds |-> <<>>]
  /\ regLog = [e \in CallIds |-> [u \in Urls |-> 0]]
  /\ nFail = 0

Init == InitManager /\ InitUi({"SELECT 1"})

\* ------------------------------------------------------------- helpers
nStarted == Cardinality({c \in CallIds : calls[c].op # "none"})
NextCall == nStarted + 1
CanFail == nFail < MaxFail
Settled(p) == p \in {"resolved", "rejected"}

\* The module a completed loadDuckDBModule() has memoized, given window.duckdb:
\* the global binding (pre-loaded, or published by the CDN import), else the package.
LoadedWith(w) == IF w = NoModule THEN PackageModule ELSE w

\* An engine promise settles: success is free, a failure uses the failure budget.
Engine(out) ==
  /\ out \in AllOutcomes
  /\ out # "ok" => CanFail
  /\ nFail' = IF out = "ok" THEN nFail ELSE nFail + 1

\* Error messages are sequences of fragments; a template string concatenates them.
\* `message.includes(word)`
Includes(message, word) == \E i \in 1..Len(message) : message[i] = word

\* The message of the error an engine or browser promise rejects with.
Reason(out) == IF out = "errCORS" THEN <<"blocked by ", "CORS", " policy">> ELSE <<"network error">>

\* The message of the error the dynamic import rejects with.
ImportReason == <<"cannot resolve @duckdb/duckdb-wasm">>

\* The message of the TypeError `this.db.connect()` throws when this.db is null.
NullDbReason == <<"cannot read properties of null">>

\* loadDuckDBModule(): the message of the error thrown when both imports failed.
LoadError_CdnOnly(importMessage, cdnMessage) == <<"Failed to load DuckDB. Tried: 1. Pre-loaded global: Not found 3. CDN import: ">> \o cdnMessage

LoadError(importMessage, cdnMessage) ==
  <<"Failed to load DuckDB. Tried: 1. Pre-loaded global: Not found 2. Dynamic import: ">> \o importMessage \o <<" 3. CDN import: ">> \o cdnMessage

\* The error doInitialize() throws from its catch block, given the message of the
\* error caught: its kind, and its message.
InitError(cause) == IF Includes(cause, "CORS") THEN "CorsBlocked" ELSE "InitFailed"
InitErrorMessage(cause) ==
  IF Includes(cause, "CORS")
  THEN <<"Failed to initialize DuckDB: CORS policy blocked worker loading. This may be a browser security restriction in development mode.">>
  ELSE <<"Failed to initialize DuckDB: ">> \o cause

\* ------------------------------------------------- initialize, doInitialize
\* initialize(): `if (this.db) return;`
InitializeReturnsAtOnce == db # 0

\* initialize() without the check of initPromise.
InitializeJoins_Never == FALSE

\* initialize(): `if (this.initPromise) return this.initPromise;`
InitializeJoins == initPromise # 0

\* initialize() reaches `this.initPromise = this.doInitialize()`
InitializeStarts == ~InitializeReturnsAtOnce /\ ~InitializeJoins

\* The promise the caller of initialize() awaits: 0 is an already resolved one.
InitializeWait(c) == IF InitializeReturnsAtOnce THEN 0 ELSE IF InitializeJoins THEN initPromise ELSE c

\* loadDuckDBModule() up to its first await, as run by doInitialize() when it starts:
\* the memoized module, else the global binding, else the dynamic import is awaited.
DoInitializeStart(a) ==
  IF duckdbModule # NoModule
  THEN /\ acq' = [acq EXCEPT ![a] = [NoAcq EXCEPT !.pc = "worker"]]
       /\ UNCHANGED duckdbModule
  ELSE IF windowDuckdb # NoModule
  THEN /\ acq' = [acq EXCEPT ![a] = [NoAcq EXCEPT !.pc = "worker"]]
       /\ duckdbModule' = windowDuckdb
  ELSE /\ acq' = [acq EXCEPT ![a] = [NoAcq EXCEPT !.pc = "import", !.version0 = config.version]]
       /\ UNCHANGED duckdbModule

\* initialize() as called by call c: its effect on initPromise, acq, duckdbModule.
Initialize(c) ==
  IF InitializeStarts
  THEN /\ initPromise' = c
       /\ DoInitializeStart(c)
  ELSE UNCHANGED <<initPromise, acq, duckdbModule>>

\* doInitialize(): the catch block. db and connection are left as they are.
DoInitializeCatch(a, cause) ==
  /\ initPromise' = 0
  /\ acq' = [acq EXCEPT ![a] = [NoAcq EXCEPT !.pc = "rejected", !.err = InitError(cause), !.cause = cause]]

\* loadDuckDBModule(): the dynamic import settles. On failure the CDN URL is built
\* from the version configured now and the CDN import is awaited.
AcqImport(a, ok) ==
  /\ acq[a].pc = "import"
  /\ IF ok
     THEN /\ duckdbModule' = PackageModule
          /\ acq' = [acq EXCEPT ![a].pc = "worker", ![a].version0 = ""]
     ELSE /\ acq' = [acq EXCEPT ![a].pc = "cdn", ![a].version0 = "", ![a].cdnVersion = config.version]
          /\ UNCHANGED duckdbModule
  /\ UNCHANGED <<db, connection, initPromise, config, registeredFiles, initQueriesExecuted, initQueriesPromise, initQueries>>
  /\ UNCHANGED <<windowDuckdb, runs, calls, logs, nFail>>
  /\ UNCHANGED ui

\* loadDuckDBModule(): the CDN import settles.
AcqCdn(a, out) ==
  /\ acq[a].pc = "cdn"
  /\ Engine(out)
  /\ IF out = "ok"
     THEN /\ duckdbModule' = CdnModule(acq[a].cdnVersion)
          /\ windowDuckdb' = CdnModule(acq[a].cdnVersion)
          /\ acq' = [acq EXCEPT ![a].pc = "worker"]
          /\ UNCHANGED initPromise
     ELSE /\ DoInitializeCatch(a, LoadError(ImportReason, Reason(out)))
          /\ UNCHANGED <<duckdbModule, windowDuckdb>>
  /\ UNCHANGED <<db, connection, config, registeredFiles, initQueriesExecuted, initQueriesPromise, initQueries>>
  /\ UNCHANGED <<runs, calls, logs>>
  /\ UNCHANGED ui

\* doInitialize(): selectBundle(), fetch() and blob() settle, in this order and with
\* no access to the manager in between, so they are taken in one step: all three
\* succeed, or one of them fails (a response that is not ok is thrown as an error).
\* On success the worker and the engine instance are constructed, this.db is
\* assigned and instantiate() is awaited.
AcqWorker(a, out) ==
  /\ acq[a].pc = "worker"
  /\ Engine(out)
  /\ IF out = "ok"
     THEN /\ db' = a
          /\ acq' = [acq EXCEPT ![a].pc = "instantiate"]
          /\ UNCHANGED initPromise
     ELSE /\ DoInitializeCatch(a, Reason(out))
          /\ UNCHANGED db
  /\ UNCHANGED <<connection, config, registeredFiles, duckdbModule, initQueriesExecuted, initQueriesPromise, initQueries>>
  /\ UNCHANGED <<windowDuckdb, runs, calls, logs>>
  /\ UNCHANGED ui

\* doInitialize(): instantiate() settles; `this.db.connect()` is called on whatever
\* this.db is now (a TypeError when it is null) and awaited.
AcqInstantiate(a, out) ==
  /\ acq[a].pc = "instantiate"
  /\ Engine(out)
  /\ IF out = "ok" /\ db # 0
     THEN /\ acq' = [acq EXCEPT ![a].pc = "connect", ![a].eng = db]
          /\ UNCHANGED initPromise
     ELSE DoInitializeCatch(a, IF out = "ok" THEN NullDbReason ELSE Reason(out))
  /\ UNCHANGED <<db, connection, config, registeredFiles, duckdbModule, initQueriesExecuted, initQueriesPromise, initQueries>>
  /\ UNCHANGED <<windowDuckdb, runs, calls, logs>>
  /\ UNCHANGED ui

\* doInitialize(): connect() settles and this.connection is assigned.
AcqConnect(a, out) ==
  /\ acq[a].pc = "connect"
  /\ Engine(out)
  /\ IF out = "ok"
     THEN /\ connection' = a
          /\ acq' = [acq EXCEPT ![a].pc = "resolved"]
          /\ UNCHANGED initPromise
     ELSE /\ DoInitializeCatch(a, Reason(out))
          /\ UNCHANGED connection
  /\ UNCHANGED <<db, config, registeredFiles, duckdbModule, initQueriesExecuted, initQueriesPromise, initQueries>>
  /\ UNCHANGED <<windowDuckdb, runs, calls, logs>>
  /\ UNCHANGED ui

\* ------------------------------------------------------ query, registerFile
\* query(sql) is called: it runs to `await this.initialize()`.
StartQuery(sql) ==
  /\ NextCall \in CallIds
  /\ calls' = [calls EXCEPT ![NextCall] = [op |-> "query", pc |-> "awaitInit", arg |-> sql, via |-> InitializeWait(NextCall), wait |-> InitializeWait(NextCall), err |-> "", raw |-> NoTable, ret |-> NoResult]]
  /\ Initialize(NextCall)
  /\ UNCHANGED <<db, connection, config, registeredFiles, initQueriesExecuted, initQueriesPromise, initQueries>>
  /\ UNCHANGED <<windowDuckdb, runs, logs, nFail>>
  /\ UNCHANGED ui

\* registerFile(name, url) is called: it runs to `await this.initialize()`.
\* The name is only passed on to the engine.
StartRegisterFile(url) ==
  /\ NextCall \in CallIds
  /\ calls' = [calls EXCEPT ![NextCall] = [op |-> "registerFile", pc |-> "awaitInit", arg |-> url, via |-> InitializeWait(NextCall), wait |-> InitializeWait(NextCall), err |-> "", raw |-> NoTable, ret |-> NoResult]]
  /\ Initialize(NextCall)
  /\ UNCHANGED <<db, connection, config, registeredFiles, initQueriesExecuted, initQueriesPromise, initQueries>>
  /\ UNCHANGED <<windowDuckdb, runs, logs, nFail>>
  /\ UNCHANGED ui

\* The awaited initialize() promise of call c has settled.
InitSettled(c) == calls[c].pc = "awaitInit" /\ (IF calls[c].wait = 0 THEN TRUE ELSE Settled(acq[calls[c].wait].pc))
InitRejected(c) == calls[c].wait # 0 /\ acq[calls[c].wait].pc = "rejected"

\* The awaited initialize() rejected: query / registerFile reject with its error.
InitFailedResume(c) ==
  /\ InitSettled(c)
  /\ InitRejected(c)
  /\ calls' = [calls EXCEPT ![c].pc = "rejected", ![c].wait = 0, ![c].err = acq[calls[c].wait].err]
  /\ UNCHANGED <<mgr, windowDuckdb, acq, runs, logs, nFail>>
  /\ UNCHANGED ui

\* -------------------------------------------------------- executeInitQueries
\* executeInitQueries(): `if (this.initQueriesExecuted) return;`
SetupAlreadyDone == initQueriesExecuted

\* executeInitQueries() without the check of initQueriesPromise.
SetupJoins_Never == FALSE

\* executeInitQueries(): `if (this.initQueriesPromise) return this.initQueriesPromise;`
SetupJoins == initQueriesPromise # 0

\* executeInitQueries(): `if (!this.initQueries.length)`
SetupEmpty == Len(initQueries) = 0

\* The promise the caller of executeInitQueries() awaits: 0 is an already resolved one.
SetupWait(c) == IF SetupAlreadyDone THEN 0 ELSE IF SetupJoins THEN initQueriesPromise ELSE IF SetupEmpty THEN 0 ELSE c

\* The async block of executeInitQueries() up to its first await, as started by
\* query call c, followed by the assignment of its promise to initQueriesPromise.
\* With no connection `this.connection.query` throws at once: the catch block
\* clears initQueriesPromise before the assignment stores the rejected promise.
SetupRunStart(c) ==
  /\ initQueriesPromise' = c
  /\ IF connection = 0
     THEN /\ runs' = [runs EXCEPT ![c] = [NoRun EXCEPT !.pc = "rejected", !.list0 = initQueries]]
          /\ UNCHANGED connLog
     ELSE /\ runs' = [runs EXCEPT ![c] = [pc |-> "running", i |-> 1, conn |-> connection, list0 |-> initQueries, sent |-> <<initQueries[1]>>]]
          /\ connLog' = [connLog EXCEPT ![connection] = Append(@, initQueries[1])]

\* executeInitQueries() as called by query call c: its effect on
\* initQueriesExecuted, initQueriesPromise, runs and connLog.
ExecuteInitQueries(c) ==
  IF SetupAlreadyDone \/ SetupJoins
  THEN UNCHANGED <<initQueriesExecuted, initQueriesPromise, runs, connLog>>
  ELSE IF SetupEmpty
  THEN /\ initQueriesExecuted' = TRUE
       /\ UNCHANGED <<initQueriesPromise, runs, connLog>>
  ELSE /\ SetupRunStart(c)
       /\ UNCHANGED initQueriesExecuted

\* The catch block without `this.initQueriesPromise = null`.
SetupRunCatch_KeepsPromise(r) ==
  /\ runs' = [runs EXCEPT ![r].pc = "rejected", ![r].i = 0, ![r].conn = 0]
  /\ UNCHANGED <<initQueriesExecuted, initQueriesPromise, connLog>>

\* The async block of executeInitQueries(): the catch block.
SetupRunCatch(r) ==
  /\ initQueriesPromise' = 0
  /\ runs' = [runs EXCEPT ![r].pc = "rejected", ![r].i = 0, ![r].conn = 0]
  /\ UNCHANGED <<initQueriesExecuted, connLog>>

\* The async block: after the last statement.
SetupRunDone(r) ==
  /\ initQueriesExecuted' = TRUE
  /\ runs' = [runs EXCEPT ![r].pc = "resolved", ![r].i = 0, ![r].conn = 0]
  /\ UNCHANGED <<initQueriesPromise, connLog>>

\* The async block: the awaited statement settles. On success the loop goes on with
\* the next statement of this.initQueries as it is now, on this.connection as it is now.
SetupRunStep(r, out) ==
  /\ runs[r].pc = "running"
  /\ out \in {"ok", "err"}
  /\ Engine(out)
  /\ IF out = "err"
     THEN SetupRunCatch(r)
     ELSE IF runs[r].i + 1 > Len(initQueries)
     THEN SetupRunDone(r)
     ELSE IF connection = 0
     THEN SetupRunCatch(r)
     ELSE /\ runs' = [runs EXCEPT ![r].i = @ + 1, ![r].conn = connection, ![r].sent = Append(@, initQueries[runs[r].i + 1])]
          /\ connLog' = [connLog EXCEPT ![connection] = Append(@, initQueries[runs[r].i + 1])]
          /\ UNCHANGED <<initQueriesExecuted, initQueriesPromise>>
  /\ UNCHANGED <<db, connection, initPromise, config, registeredFiles, duckdbModule, initQueries>>
  /\ UNCHANGED <<windowDuckdb, acq, calls, regLog>>
  /\ UNCHANGED ui

\* query(): initialize() resolved; executeInitQueries() is called and awaited.
QueryAfterInit(c) ==
  /\ calls[c].op = "query"
  /\ InitSettled(c)
  /\ ~InitRejected(c)
  /\ calls' = [calls EXCEPT ![c].pc = "awaitSetup", ![c].wait = SetupWait(c)]
  /\ ExecuteInitQueries(c)
  /\ UNCHANGED <<db, connection, initPromise, config, registeredFiles, duckdbModule, initQueries>>
  /\ UNCHANGED <<windowDuckdb, acq, regLog, nFail>>
  /\ UNCHANGED ui

\* The awaited executeInitQueries() promise of query call c has settled.
SetupSettled(c) == calls[c].pc = "awaitSetup" /\ (IF calls[c].wait = 0 THEN TRUE ELSE Settled(runs[calls[c].wait].pc))

\* query() taking no notice of the rejection of executeInitQueries().
SetupRejected_Never(c) == FALSE

\* The awaited executeInitQueries() promise of query call c has rejected.
SetupRejected(c) == calls[c].wait # 0 /\ runs[calls[c].wait].pc = "rejected"

\* query(): `if (!this.connection) throw`, else the user statement may be submitted.
QueryMaySubmit == connection # 0

\* query(): executeInitQueries() settled. Its rejection rejects the call; without a
\* connection the call rejects; else the user statement is submitted and awaited.
QueryAfterSetup(c) ==
  /\ SetupSettled(c)
  /\ IF SetupRejected(c)
     THEN /\ calls' = [calls EXCEPT ![c].pc = "rejected", ![c].wait = 0, ![c].err = "SetupFailed"]
          /\ UNCHANGED connLog
     ELSE IF ~QueryMaySubmit
     THEN /\ calls' = [calls EXCEPT ![c].pc = "rejected", ![c].wait = 0, ![c].err = "NoConnection"]
          /\ UNCHANGED connLog
     ELSE /\ calls' = [calls EXCEPT ![c].pc = "awaitQuery", ![c].wait = connection]
          /\ connLog' = [connLog EXCEPT ![connection] = Append(@, calls[c].arg)]
  /\ UNCHANGED <<mgr, windowDuckdb, acq, runs, regLog, nFail>>
  /\ UNCHANGED ui

\* The user statement settles, a failure also clearing initQueriesExecuted.
QueryResponse_FailureResetsSetup(c, out) ==
  /\ calls[c].pc = "awaitQuery"
  /\ out \in {"ok", "err"}
  /\ Engine(out)
  /\ calls' = [calls EXCEPT ![c].pc = IF out = "ok" THEN "resolved" ELSE "rejected", ![c].wait = 0, ![c].err = IF out = "ok" THEN "" ELSE "QueryFailed"]
  /\ initQueriesExecuted' = IF out = "ok" THEN initQueriesExecuted ELSE FALSE
  /\ UNCHANGED <<db, connection, initPromise, config, registeredFiles, duckdbModule, initQueriesPromise, initQueries>>
  /\ UNCHANGED <<windowDuckdb, acq, runs, logs>>
  /\ UNCHANGED ui

\* The values of a cell: null, undefined, and values that are not nullish, three
\* of them falsy.
Nullish == {"null", "undefined"}
CellValues == {"null", "undefined", "0", "false", "", "v"}

\* `a || b`
LogicalOr(a, b) == IF a \in {"null", "undefined", "0", "false", ""} THEN b ELSE a

\* `a ?? b`
NullishCoalesce(a, b) == IF a \in Nullish THEN b ELSE a

\* `col?.get(i)` for `col = result.getChildAt(j)`
ChildGet(table, i, j) == IF table.children[j].present THEN table.children[j].data[i] ELSE "undefined"

\* query(): the conversion of the engine's table to a QueryResult.
ToQueryResult(table) ==
  [columns |-> [k \in 1..Len(table.fields) |-> table.fields[k].name],
   rows |-> [i \in 1..table.numRows |-> [j \in 1..table.numCols |-> NullishCoalesce(ChildGet(table, i, j), "null")]],
   rowCount |-> table.numRows]

\* The table the engine answers with where the model does not vary it.
DefaultTable == [fields |-> <<[name |-> "a"]>>, numRows |-> 1, numCols |-> 1, children |-> <<[present |-> TRUE, data |-> <<"v">>]>>]

\* query(): the user statement settles, on success with the given table.
QueryResponseWith(c, out, table) ==
  /\ calls[c].pc = "awaitQuery"
  /\ out \in {"ok", "err"}
  /\ Engine(out)
  /\ calls' = IF out = "ok"
              THEN [calls EXCEPT ![c].pc = "resolved", ![c].wait = 0, ![c].raw = table, ![c].ret = ToQueryResult(table)]
              ELSE [calls EXCEPT ![c].pc = "rejected", ![c].wait = 0, ![c].err = "QueryFailed"]
  /\ UNCHANGED <<mgr, windowDuckdb, acq, runs, logs>>
  /\ UNCHANGED ui

\* query(): the user statement settles.
QueryResponse(c, out) == QueryResponseWith(c, out, DefaultTable)

\* ------------------------------------------------------------- registerFile
\* registerFile(): `if (this.registeredFiles.has(url)) return;`
RegisterSkips(url) == url \in registeredFiles

\* registerFile(): initialize() resolved. Without an engine instance the call
\* rejects; a registered URL is skipped; else registerFileURL is requested from
\* this.db and awaited.
RegisterAfterInit(c) ==
  /\ calls[c].op = "registerFile"
  /\ InitSettled(c)
  /\ ~InitRejected(c)
  /\ IF db = 0
     THEN /\ calls' = [calls EXCEPT ![c].pc = "rejected", ![c].wait = 0, ![c].err = "NotInitialized"]
          /\ UNCHANGED regLog
     ELSE IF RegisterSkips(calls[c].arg)
     THEN /\ calls' = [calls EXCEPT ![c].pc = "resolved", ![c].wait = 0]
          /\ UNCHANGED regLog
     ELSE /\ calls' = [calls EXCEPT ![c].pc = "awaitRegister", ![c].wait = db]
          /\ regLog' = [regLog EXCEPT ![db][calls[c].arg] = @ + 1]
  /\ UNCHANGED <<mgr, windowDuckdb, acq, runs, connLog, nFail>>
  /\ UNCHANGED ui

\* registerFileURL settles, the URL joining the set whatever the outcome.
RegisterResponse_AddsOnFailure(c, out) ==
  /\ calls[c].pc = "awaitRegister"
  /\ out \in {"ok", "err"}
  /\ Engine(out)
  /\ registeredFiles' = registeredFiles \cup {calls[c].arg}
  /\ calls' = [calls EXCEPT ![c].pc = IF out = "ok" THEN "resolved" ELSE "rejected", ![c].wait = 0, ![c].err = IF out = "ok" THEN "" ELSE "RegisterFailed"]
  /\ UNCHANGED <<db, connection, initPromise, config, duckdbModule, initQueriesExecuted, initQueriesPromise, initQueries>>
  /\ UNCHANGED <<windowDuckdb, acq, runs, logs>>
  /\ UNCHANGED ui

\* registerFile(): registerFileURL settles; on success the URL joins the set.
RegisterResponse(c, out) ==
  /\ calls[c].pc = "awaitRegister"
  /\ out \in {"ok", "err"}
  /\ Engine(out)
  /\ IF out = "ok"
     THEN /\ registeredFiles' = registeredFiles \cup {calls[c].arg}
          /\ calls' = [calls EXCEPT ![c].pc = "resolved", ![c].wait = 0]
     ELSE /\ calls' = [calls EXCEPT ![c].pc = "rejected", ![c].wait = 0, ![c].err = "RegisterFailed"]
          /\ UNCHANGED registeredFiles
  /\ UNCHANGED <<db, connection, initPromise, config, duckdbModule, initQueriesExecuted, initQueriesPromise, initQueries>>
  /\ UNCHANGED <<windowDuckdb, acq, runs, logs>>
  /\ UNCHANGED ui

\* -------------------------------------------------------------------- close
\* The assignments after the two awaits without `this.registeredFiles.clear()`.
CloseReset_KeepsFiles ==
  /\ initPromise' = 0
  /\ initQueriesExecuted' = FALSE
  /\ initQueriesPromise' = 0
  /\ initQueries' = <<>>
  /\ UNCHANGED registeredFiles

\* close(): the assignments after the two awaits.
CloseReset ==
  /\ initPromise' = 0
  /\ registeredFiles' = {}
  /\ initQueriesExecuted' = FALSE
  /\ initQueriesPromise' = 0
  /\ initQueries' = <<>>

\* close() from `if (this.db)` on, awaiting terminate() whether or not there is an
\* engine instance.
CloseFromDb_AlwaysTerminates(c) ==
  /\ calls' = [calls EXCEPT ![c].op = "close", ![c].pc = "awaitTerminate", ![c].wait = db]
  /\ UNCHANGED <<db, initPromise, registeredFiles, initQueriesExecuted, initQueriesPromise, initQueries>>

\* close() from `if (this.db)` on, by call c: terminate() is awaited when there is
\* an engine instance, else the reset follows at once.
CloseFromDb(c) ==
  IF db # 0
  THEN /\ calls' = [calls EXCEPT ![c].op = "close", ![c].pc = "awaitTerminate", ![c].wait = db]
       /\ UNCHANGED <<db, initPromise, registeredFiles, initQueriesExecuted, initQueriesPromise, initQueries>>
  ELSE /\ calls' = [calls EXCEPT ![c].op = "close", ![c].pc = "resolved", ![c].wait = 0]
       /\ CloseReset
       /\ UNCHANGED db

\* close() is called: with a connection its close() is awaited.
StartClose ==
  /\ NextCall \in CallIds
  /\ IF connection # 0
     THEN /\ calls' = [calls EXCEPT ![NextCall] = [op |-> "close", pc |-> "awaitConnClose", arg |-> "", via |-> 0, wait |-> connection, err |-> "", raw |-> NoTable, ret |-> NoResult]]
          /\ UNCHANGED <<db, initPromise, registeredFiles, initQueriesExecuted, initQueriesPromise, initQueries>>
     ELSE CloseFromDb(NextCall)
  /\ UNCHANGED <<connection, config, duckdbModule>>
  /\ UNCHANGED <<windowDuckdb, acq, runs, logs, nFail>>
  /\ UNCHANGED ui

\* close(): connection.close() settles. On success this.connection is cleared and
\* close() goes on; a failure rejects the call there.
CloseConnResponse(c, out) ==
  /\ calls[c].pc = "awaitConnClose"
  /\ out \in {"ok", "err"}
  /\ Engine(out)
  /\ IF out = "ok"
     THEN /\ connection' = 0
          /\ CloseFromDb(c)
     ELSE /\ calls' = [calls EXCEPT ![c].pc = "rejected", ![c].wait = 0, ![c].err = "CloseFailed"]
          /\ UNCHANGED <<db, connection, initPromise, registeredFiles, initQueriesExecuted, initQueriesPromise, initQueries>>
  /\ UNCHANGED <<config, duckdbModule>>
  /\ UNCHANGED <<windowDuckdb, acq, runs, logs>>
  /\ UNCHANGED ui

\* close() performing the reset also when db.terminate() fails.
CloseTerminateResponse_ResetsOnFailure(c, out) ==
  /\ calls[c].pc = "awaitTerminate"
  /\ out \in {"ok", "err"}
  /\ Engine(out)
  /\ db' = IF out = "ok" THEN 0 ELSE db
  /\ calls' = IF out = "ok" THEN [calls EXCEPT ![c].pc = "resolved", ![c].wait = 0]
              ELSE [calls EXCEPT ![c].pc = "rejected", ![c].wait = 0, ![c].err = "CloseFailed"]
  /\ CloseReset
  /\ UNCHANGED <<connection, config, duckdbModule>>
  /\ UNCHANGED <<windowDuckdb, acq, runs, logs>>
  /\ UNCHANGED ui

\* close(): db.terminate() settles. On success this.db is cleared and the reset
\* follows; a failure rejects the call there.
CloseTerminateResponse(c, out) ==
  /\ calls[c].pc = "awaitTerminate"
  /\ out \in {"ok", "err"}
  /\ Engine(out)
  /\ IF out = "ok"
     THEN /\ db' = 0
          /\ calls' = [calls EXCEPT ![c].pc = "resolved", ![c].wait = 0]
          /\ CloseReset
     ELSE /\ calls' = [calls EXCEPT ![c].pc = "rejected", ![c].wait = 0, ![c].err = "CloseFailed"]
          /\ UNCHANGED <<db, initPromise, registeredFiles, initQueriesExecuted, initQueriesPromise, initQueries>>
  /\ UNCHANGED <<connection, config, duckdbModule>>
  /\ UNCHANGED <<windowDuckdb, acq, runs, logs>>
  /\ UNCHANGED ui

\* ------------------------------------------------------------ configuration
\* { ...this.config, ...config }
MergeConfig(cfg, partial) == [k \in DOMAIN cfg |-> IF k \in DOMAIN partial THEN partial[k] ELSE cfg[k]]

\* configure() without the check of this.db.
ConfigureIgnored_Never == FALSE

\* configure(): ignored, with a warning, once there is an engine instance.
ConfigureIgnored == db # 0

\* configure(partial)
Configure(partial) ==
  /\ config' = IF ConfigureIgnored THEN config ELSE MergeConfig(config, partial)
  /\ UNCHANGED <<db, connection, initPromise, registeredFiles, duckdbModule, initQueriesExecuted, initQueriesPromise, initQueries>>
  /\ UNCHANGED <<windowDuckdb, procs, logs, nFail>>
  /\ UNCHANGED ui

\* configureInitQueries() without the check of initQueriesExecuted.
ConfigureInitQueriesIgnored_Never == FALSE

\* configureInitQueries(): ignored, with a warning, once the statements have run.
ConfigureInitQueriesIgnored == initQueriesExecuted

\* configureInitQueries(queries) submitting the first statement at once when there
\* is a connection.
ConfigureInitQueries_Eager(queries) ==
  /\ initQueries' = IF initQueriesExecuted THEN initQueries ELSE queries
  /\ connLog' = IF connection # 0 THEN [connLog EXCEPT ![connection] = Append(@, queries[1])] ELSE connLog
  /\ UNCHANGED <<db, connection, initPromise, config, registeredFiles, duckdbModule, initQueriesExecuted, initQueriesPromise>>
  /\ UNCHANGED <<windowDuckdb, procs, regLog, nFail>>
  /\ UNCHANGED ui

\* configureInitQueries(queries)
ConfigureInitQueries(queries) ==
  /\ initQueries' = IF ConfigureInitQueriesIgnored THEN initQueries ELSE queries
  /\ UNCHANGED <<db, connection, initPromise, config, registeredFiles, duckdbModule, initQueriesExecuted, initQueriesPromise>>
  /\ UNCHANGED <<windowDuckdb, procs, logs, nFail>>
  /\ UNCHANGED ui

\* isInitialized()
IsInitialized == db # 0

\* setState(state) without the update of the buttons.
SetState_StateOnly(emb, state) == [emb EXCEPT !.state = state]

\* ------------------------------------------------------------ embeds: actions
\* The manager is an external collaborator of an embed: each call made to it is
\* counted, and the promise it returned settles in a later step.
\* setState(state)
SetState(emb, state) ==
  [emb EXCEPT !.state = state,
              !.runDisabled = IF emb.hasUi THEN state = "loading" ELSE @,
              !.resetDisabled = IF emb.hasUi THEN state = "loading" ELSE @]

\* showLoading(), showError(message), showResult(result), showResetButton()
ShowLoading(emb) == IF emb.hasUi THEN [emb EXCEPT !.output = "loading"] ELSE emb
ShowError(emb, message) == IF emb.hasUi THEN [emb EXCEPT !.output = message] ELSE emb
ShowResult(emb) == IF emb.hasUi THEN [emb EXCEPT !.output = "result"] ELSE emb
ShowResetButton(emb) == IF emb.hasUi THEN [emb EXCEPT !.resetHidden = FALSE] ELSE emb

\* getCode(): `this.editorElement?.textContent ?? ''`
GetCode(emb) == IF emb.hasUi THEN emb.code ELSE ""

\* The user edits the text of the editor.
SetCode(e, code) ==
  /\ embeds[e].hasUi
  /\ embeds[e].code # code
  /\ embeds' = [embeds EXCEPT ![e].code = code]
  /\ UNCHANGED <<embedRuns, managerCalls, workbench, manager>>

nRuns == Cardinality({r \in RunIds : embedRuns[r].pc # "unused"})
NextRun == nRuns + 1
RunInProgress(r) == embedRuns[r].pc \notin {"unused", "done"}

\* run() without the test of the state.
RunReturnsAtOnce_Never(emb) == FALSE

\* run(): `if (this.state === 'loading') return;`
RunReturnsAtOnce(emb) == emb.state = "loading"

\* run() without the test of the text.
RunHasNoSql_Never(emb) == FALSE

\* run(): `if (!sql.trim())`
RunHasNoSql(emb) == Trim(GetCode(emb)) = ""

\* run() is called on embed e: it runs to its first await, or returns. initialized
\* is what duckDBManager.isInitialized() answers.
Run(e, initialized) ==
  LET emb == embeds[e]
      sql == GetCode(emb)
      paths == PathsIn(sql)
  IN IF RunReturnsAtOnce(emb)
     THEN UNCHANGED <<ui, manager>>
     ELSE IF RunHasNoSql(emb)
     THEN /\ embeds' = [embeds EXCEPT ![e] = ShowError(emb, "No SQL query to execute")]
          /\ UNCHANGED <<embedRuns, managerCalls, workbench, manager>>
     ELSE /\ NextRun \in RunIds
          /\ embeds' = [embeds EXCEPT ![e] = ShowLoading(SetState(emb, "loading"))]
          /\ embedRuns' = [embedRuns EXCEPT ![NextRun] =
                             IF paths = <<>>
                             THEN [embed |-> e, pc |-> "awaitQuery", sql |-> sql, todo |-> <<>>]
                             ELSE [embed |-> e, pc |-> "awaitRegister", sql |-> sql, todo |-> Tail(paths)]]
          /\ managerCalls' = [managerCalls EXCEPT ![e].configure = IF initialized THEN @ ELSE @ + 1,
                                                  ![e].registerFile = IF paths = <<>> THEN @ ELSE @ + 1,
                                                  ![e].query = IF paths = <<>> THEN @ + 1 ELSE @]
          /\ UNCHANGED <<workbench, manager>>

\* run() leaving the state as it is when it ends.
RunEnd_KeepsState(r, state) ==
  /\ embedRuns' = [embedRuns EXCEPT ![r].pc = "done", ![r].sql = "", ![r].todo = <<>>]
  /\ UNCHANGED embeds

\* run(): the end of the try block (state "success") or of the catch block ("error")
RunEnd(r, state) ==
  LET e == embedRuns[r].embed
      emb == SetState(embeds[e], state)
  IN /\ embeds' = [embeds EXCEPT ![e] = ShowResetButton(IF state = "success" THEN ShowResult(emb) ELSE ShowError(emb, "error"))]
     /\ embedRuns' = [embedRuns EXCEPT ![r].pc = "done", ![r].sql = "", ![r].todo = <<>>]

\* run(): after the query resolved, or in the catch block: when less than 200 ms
\* have elapsed the timer is awaited, else the run ends at once.
RunEndOrDelay(r, state, fast) ==
  IF fast
  THEN /\ embedRuns' = [embedRuns EXCEPT ![r].pc = IF state = "success" THEN "delaySuccess" ELSE "delayError", ![r].todo = <<>>]
       /\ UNCHANGED embeds
  ELSE RunEnd(r, state)

\* run(): the awaited registerFile() settles.
RunRegisterSettles(r, out, fast) ==
  /\ embedRuns[r].pc = "awaitRegister"
  /\ out \in Outcomes
  /\ IF out = "ok"
     THEN /\ embedRuns' = [embedRuns EXCEPT ![r].pc = IF embedRuns[r].todo = <<>> THEN "awaitQuery" ELSE "awaitRegister",
                                             ![r].todo = IF embedRuns[r].todo = <<>> THEN <<>> ELSE Tail(@)]
          /\ managerCalls' = [managerCalls EXCEPT ![embedRuns[r].embed].registerFile = IF embedRuns[r].todo = <<>> THEN @ ELSE @ + 1,
                                                  ![embedRuns[r].embed].query = IF embedRuns[r].todo = <<>> THEN @ + 1 ELSE @]
          /\ UNCHANGED embeds
     ELSE /\ RunEndOrDelay(r, "error", fast)
          /\ UNCHANGED managerCalls
  /\ UNCHANGED <<workbench, manager>>

\* run(): the awaited query() settles.
RunQuerySettles(r, out, fast) ==
  /\ embedRuns[r].pc = "awaitQuery"
  /\ out \in Outcomes
  /\ RunEndOrDelay(r, IF out = "ok" THEN "success" ELSE "error", fast)
  /\ UNCHANGED <<managerCalls, workbench, manager>>

\* run(): the timer of the minimum loading duration fires.
RunDelayDone(r) ==
  /\ embedRuns[r].pc \in {"delaySuccess", "delayError"}
  /\ RunEnd(r, IF embedRuns[r].pc = "delaySuccess" THEN "success" ELSE "error")
  /\ UNCHANGED <<managerCalls, workbench, manager>>

\* reset()
Reset(e) ==
  LET emb == SetState(IF embeds[e].hasUi THEN [embeds[e] EXCEPT !.code = embeds[e].initialCode] ELSE embeds[e], "idle")
  IN /\ embeds' = [embeds EXCEPT ![e] = IF emb.hasUi THEN [emb EXCEPT !.output = "hidden", !.resetHidden = TRUE] ELSE emb]
     /\ UNCHANGED <<embedRuns, managerCalls, workbench, manager>>

\* Embedded.destroy()
Destroyed(emb) == IF emb.destroyed THEN emb ELSE [emb EXCEPT !.hasUi = FALSE, !.destroyed = TRUE]

\* destroy() is called on embed e by the page.
EmbedDestroy(e) ==
  /\ ~embeds[e].destroyed
  /\ embeds' = [embeds EXCEPT ![e] = Destroyed(@)]
  /\ UNCHANGED <<embedRuns, managerCalls, workbench, manager>>

\* The MutationObserver sees the container of embed e removed from the document.
ContainerRemoved(e) ==
  /\ embeds[e].hasUi
  /\ ~embeds[e].destroyed
  /\ embeds' = [embeds EXCEPT ![e] = Destroyed(@)]
  /\ workbench' = [workbench EXCEPT !.allEmbeds = SelectSeq(@, LAMBDA x : x # e)]
  /\ UNCHANGED <<embedRuns, managerCalls, manager>>

\* SQLWorkbench.destroy() with no handler on the promise of close().
CloseRejected_Unhandled(wb) == [wb EXCEPT !.closePending = @ - 1, !.unhandled = @ + 1]

\* SQLWorkbench.destroy(): the catch handler on the promise of close()
CloseRejected(wb) == [wb EXCEPT !.closePending = @ - 1, !.logged = @ + 1]

\* SQLWorkbench.destroy()
WorkbenchDestroy ==
  /\ workbench.destroys < MaxDestroys
  /\ embeds' = [e \in EmbedIds |-> IF \E i \in 1..Len(workbench.allEmbeds) : workbench.allEmbeds[i] = e
                                   THEN Destroyed(embeds[e]) ELSE embeds[e]]
  /\ workbench' = [workbench EXCEPT !.allEmbeds = <<>>, !.destroys = @ + 1, !.closeRequests = @ + 1, !.closePending = @ + 1]
  /\ UNCHANGED <<embedRuns, managerCalls, manager>>

\* The promise of a close() requested by destroy() settles.
CloseSettles(out) ==
  /\ workbench.closePending > 0
  /\ out \in Outcomes
  /\ workbench' = IF out = "ok" THEN [workbench EXCEPT !.closePending = @ - 1] ELSE CloseRejected(workbench)
  /\ UNCHANGED <<embeds, embedRuns, managerCalls, manager>>

\* ------------------------------------------------------------ specification
Next ==
  \/ \E sql \in Sqls : StartQuery(sql)
  \/ \E url \in Urls : StartRegisterFile(url)
  \/ StartClose
  \/ \E partial \in PartialConfigs : Configure(partial)
  \/ \E queries \in InitQueryLists : ConfigureInitQueries(queries)
  \/ \E a \in CallIds, ok \in BOOLEAN : AcqImport(a, ok)
  \/ \E a \in CallIds, out \in Outcomes : AcqCdn(a, out)
  \/ \E a \in CallIds, out \in Outcomes : AcqWorker(a, out)
  \/ \E a \in CallIds, out \in Outcomes : AcqInstantiate(a, out)
  \/ \E a \in CallIds, out \in Outcomes : AcqConnect(a, out)
  \/ \E c \in CallIds : InitFailedResume(c)
  \/ \E c \in CallIds : QueryAfterInit(c)
  \/ \E c \in CallIds : QueryAfterSetup(c)
  \/ \E c \in CallIds, out \in Outcomes : QueryResponse(c, out)
  \/ \E c \in CallIds : RegisterAfterInit(c)
  \/ \E c \in CallIds, out \in Outcomes : RegisterResponse(c, out)
  \/ \E r \in CallIds, out \in Outcomes : SetupRunStep(r, out)
  \/ \E c \in CallIds, out \in Outcomes : CloseConnResponse(c, out)
  \/ \E c \in CallIds, out \in Outcomes : CloseTerminateResponse(c, out)

Spec == Init /\ [][Next]_vars

\* ------------------------------------------------- restricted environments
\* No call, acquisition or setup run is in progress.
CallInFlight(c) == calls[c].op # "none" /\ ~Settled(calls[c].pc)
AcqInFlight(a) == acq[a].pc \notin {"unused", "resolved", "rejected"}
RunInFlight(r) == runs[r].pc = "running"
Idle == \A x \in CallIds : ~CallInFlight(x) /\ ~AcqInFlight(x) /\ ~RunInFlight(x)

\* The steps in which a promise of the acquisition or of a call settles, or an
\* await of a call resumes.
Progress ==
  \/ \E a \in CallIds, ok \in BOOLEAN : AcqImport(a, ok)
  \/ \E a \in CallIds, out \in Outcomes : AcqCdn(a, out)
  \/ \E a \in CallIds, out \in Outcomes : AcqWorker(a, out)
  \/ \E a \in CallIds, out \in Outcomes : AcqInstantiate(a, out)
  \/ \E a \in CallIds, out \in Outcomes : AcqConnect(a, out)
  \/ \E c \in CallIds : InitFailedResume(c)
  \/ \E c \in CallIds : QueryAfterInit(c)
  \/ \E c \in CallIds : QueryAfterSetup(c)
  \/ \E c \in CallIds, out \in Outcomes : QueryResponse(c, out)
  \/ \E c \in CallIds : RegisterAfterInit(c)
  \/ \E c \in CallIds, out \in Outcomes : RegisterResponse(c, out)

\* Callers that only query and register files, in any interleaving: no close(),
\* no configuration, hence no setup statement.
NextInit ==
  \/ \E sql \in Sqls : StartQuery(sql)
  \/ \E url \in Urls : StartRegisterFile(url)
  \/ Progress

SpecInit == Init /\ [][NextInit]_vars

\* The same callers, the failures of the acquisition steps being of either kind.
NextFailure ==
  \/ \E sql \in Sqls : StartQuery(sql)
  \/ \E url \in Urls : StartRegisterFile(url)
  \/ \E a \in CallIds, ok \in BOOLEAN : AcqImport(a, ok)
  \/ \E a \in CallIds, out \in AllOutcomes : AcqCdn(a, out)
  \/ \E a \in CallIds, out \in AllOutcomes : AcqWorker(a, out)
  \/ \E a \in CallIds, out \in AllOutcomes : AcqInstantiate(a, out)
  \/ \E a \in CallIds, out \in AllOutcomes : AcqConnect(a, out)
  \/ \E c \in CallIds : InitFailedResume(c)
  \/ \E c \in CallIds : QueryAfterInit(c)
  \/ \E c \in CallIds : QueryAfterSetup(c)
  \/ \E c \in CallIds, out \in Outcomes : QueryResponse(c, out)
  \/ \E c \in CallIds : RegisterAfterInit(c)
  \/ \E c \in CallIds, out \in Outcomes : RegisterResponse(c, out)

SpecFailure == Init /\ [][NextFailure]_vars

\* Callers that make one call at a time: a call (or a configuration) is made only
\* while nothing is in progress.
NextSequential ==
  \/ Idle /\ \E sql \in Sqls : StartQuery(sql)
  \/ Idle /\ \E url \in Urls : StartRegisterFile(url)
  \/ Idle /\ StartClose
  \/ Idle /\ \E queries \in InitQueryLists : ConfigureInitQueries(queries)
  \/ Progress
  \/ \E r \in CallIds, out \in Outcomes : SetupRunStep(r, out)
  \/ \E c \in CallIds, out \in Outcomes : CloseConnResponse(c, out)
  \/ \E c \in CallIds, out \in Outcomes : CloseTerminateResponse(c, out)

SpecSequential == Init /\ [][NextSequential]_vars

\* Callers that make one call at a time and call configure() at any time, with
\* any subset of the fields.
AllPartialConfigs == {[version |-> "v2"], [cdn |-> "c2"], [version |-> "v2", cdn |-> "c2"], [version |-> "v1", cdn |-> "c1"]}

NextConfigure ==
  \/ NextSequential
  \/ \E partial \in AllPartialConfigs : Configure(partial)

SpecConfigure == Init /\ [][NextConfigure]_vars

\* The state after registerFile(name, "u1"), the first call on a new manager, has
\* built the connection and registered the file.
InitReady ==
  /\ db = 1
  /\ connection = 1
  /\ initPromise = 1
  /\ config = DefaultConfig
  /\ registeredFiles = {"u1"}
  /\ windowDuckdb \in {NoModule, GlobalModule, CdnModule(DefaultConfig.version)}
  /\ duckdbModule = LoadedWith(windowDuckdb)
  /\ initQueriesExecuted = FALSE
  /\ initQueriesPromise = 0
  /\ initQueries = <<>>
  /\ acq = [a \in CallIds |-> IF a = 1 THEN [NoAcq EXCEPT !.pc = "resolved", !.eng = 1] ELSE NoAcq]
  /\ runs = [r \in CallIds |-> NoRun]
  /\ calls = [c \in CallIds |-> IF c = 1 THEN [NoCall EXCEPT !.op = "registerFile", !.pc = "resolved", !.arg = "u1", !.via = 1] ELSE NoCall]
  /\ connLog = [k \in CallIds |-> <<>>]
  /\ regLog = [e \in CallIds |-> [u \in Urls |-> IF e = 1 /\ u = "u1" THEN 1 ELSE 0]]
  /\ nFail = 0
  /\ InitUi({"SELECT 1"})

\* Queries on a ready connection, in any interleaving; the statement list is
\* configured only while no setup run is in progress.
NextReady ==
  \/ \E sql \in Sqls : StartQuery(sql)
  \/ (\A r \in CallIds : ~RunInFlight(r)) /\ \E queries \in InitQueryLists : ConfigureInitQueries(queries)
  \/ \E c \in CallIds : QueryAfterInit(c)
  \/ \E c \in CallIds : QueryAfterSetup(c)
  \/ \E c \in CallIds, out \in Outcomes : QueryResponse(c, out)
  \/ \E r \in CallIds, out \in Outcomes : SetupRunStep(r, out)

SpecReady == InitReady /\ [][NextReady]_vars

\* The tables the engine may answer with: up to MaxRows rows, a column per name
\* of a prefix of ColumnNames, each child vector absent or holding a value per row.
ColumnNames == <<"a", "b">>
Vectors(n) == {[present |-> FALSE, data |-> <<>>]} \cup {[present |-> TRUE, data |-> d] : d \in [1..n -> CellValues]}
Table(nc, nr, ch) == [fields |-> [k \in 1..nc |-> [name |-> ColumnNames[k]]], numRows |-> nr, numCols |-> nc, children |-> ch]

\* The state after registerFile(name, "u1") and then query("Q") on a new manager,
\* the user statement submitted and not yet answered.
InitSubmitted ==
  /\ db = 1
  /\ connection = 1
  /\ initPromise = 1
  /\ config = DefaultConfig
  /\ registeredFiles = {"u1"}
  /\ windowDuckdb \in {NoModule, GlobalModule, CdnModule(DefaultConfig.version)}
  /\ duckdbModule = LoadedWith(windowDuckdb)
  /\ initQueriesExecuted = TRUE
  /\ initQueriesPromise = 0
  /\ initQueries = <<>>
  /\ acq = [a \in CallIds |-> IF a = 1 THEN [NoAcq EXCEPT !.pc = "resolved", !.eng = 1] ELSE NoAcq]
  /\ runs = [r \in CallIds |-> NoRun]
  /\ calls = [c \in CallIds |-> IF c = 1 THEN [NoCall EXCEPT !.op = "registerFile", !.pc = "resolved", !.arg = "u1", !.via = 1]
                                ELSE IF c = 2 THEN [NoCall EXCEPT !.op = "query", !.pc = "awaitQuery", !.arg = "Q", !.wait = 1]
                                ELSE NoCall]
  /\ connLog = [k \in CallIds |-> IF k = 1 THEN <<"Q">> ELSE <<>>]
  /\ regLog = [e \in CallIds |-> [u \in Urls |-> IF e = 1 /\ u = "u1" THEN 1 ELSE 0]]
  /\ nFail = 0
  /\ InitUi({"SELECT 1"})

\* The engine answers the submitted statement with any table, or rejects it.
QueryResponseAny(c, out) ==
  /\ calls[c].pc = "awaitQuery"
  /\ \E nc \in 0..Len(ColumnNames), nr \in 0..MaxRows :
       \E ch \in [1..nc -> Vectors(nr)] : QueryResponseWith(c, out, Table(nc, nr, ch))

NextResult == \E c \in CallIds, out \in Outcomes : QueryResponseAny(c, out)

SpecResult == InitSubmitted /\ [][NextResult]_vars

\* ------------------------------------------------------------ embeds: specifications
\* The steps in which a promise awaited by a run() settles.
RunProgress ==
  \/ \E r \in RunIds, out \in Outcomes, fast \in BOOLEAN : RunRegisterSettles(r, out, fast)
  \/ \E r \in RunIds, out \in Outcomes, fast \in BOOLEAN : RunQuerySettles(r, out, fast)
  \/ \E r \in RunIds : RunDelayDone(r)

\* A page on which one embed is run, edited, reset and destroyed, in any order.
UsedEmbeds == {1}

NextEmbed ==
  \/ \E e \in UsedEmbeds, code \in Codes : SetCode(e, code)
  \/ \E e \in UsedEmbeds, initialized \in BOOLEAN : Run(e, initialized)
  \/ RunProgress
  \/ \E e \in UsedEmbeds : Reset(e)
  \/ \E e \in UsedEmbeds : EmbedDestroy(e)

\* The page after SQLWorkbench.init(), the embeds constructed with any text, the
\* manager as constructed and no module pre-loaded.
InitEmbed == InitManager /\ windowDuckdb = NoModule /\ InitUi(InitialCodes)

SpecEmbed == InitEmbed /\ [][NextEmbed]_vars

\* A page whose embeds are run and destroyed, one by one or all at once.
NextWorkbench ==
  \/ \E e \in EmbedIds, initialized \in BOOLEAN : Run(e, initialized)
  \/ RunProgress
  \/ \E e \in EmbedIds : EmbedDestroy(e)
  \/ \E e \in EmbedIds : ContainerRemoved(e)
  \/ WorkbenchDestroy
  \/ \E out \in Outcomes : CloseSettles(out)

SpecWorkbench == InitEmbed /\ [][NextWorkbench]_vars

\* A page on which the embed is edited and only run() is called on it.
NextRunOnly ==
  \/ \E e \in UsedEmbeds, code \in Codes : SetCode(e, code)
  \/ \E e \in UsedEmbeds, initialized \in BOOLEAN : Run(e, initialized)
  \/ RunProgress

SpecRunOnly == InitEmbed /\ [][NextRunOnly]_vars

\* Every promise a run() awaits settles, and its timer fires.
RunFairness ==
  \A r \in RunIds :
    /\ WF_vars(\E out \in Outcomes, fast \in BOOLEAN : RunRegisterSettles(r, out, fast))
    /\ WF_vars(\E out \in Outcomes, fast \in BOOLEAN : RunQuerySettles(r, out, fast))
    /\ WF_vars(RunDelayDone(r))

\* run(), reset() and destroy() on an embed whose text the user leaves as it is,
\* every promise awaited by a run() settling.
NextLoading ==
  \/ \E e \in UsedEmbeds, initialized \in BOOLEAN : Run(e, initialized)
  \/ RunProgress
  \/ \E e \in UsedEmbeds : Reset(e)
  \/ \E e \in UsedEmbeds : EmbedDestroy(e)

SpecEmbedFair == InitEmbed /\ [][NextLoading]_vars /\ RunFairness

\* InitSubmitted is a state the manager reaches from construction.
SubmittedReached ==
  /\ db = 1 /\ connection = 1 /\ initPromise = 1 /\ config = DefaultConfig
  /\ registeredFiles = {"u1"} /\ duckdbModule = LoadedWith(windowDuckdb) /\ initQueriesExecuted
  /\ initQueriesPromise = 0 /\ initQueries = <<>> /\ nFail = 0
  /\ acq = [a \in CallIds |-> IF a = 1 THEN [NoAcq EXCEPT !.pc = "resolved", !.eng = 1] ELSE NoAcq]
  /\ runs = [r \in CallIds |-> NoRun]
  /\ calls = [c \in CallIds |-> IF c = 1 THEN [NoCall EXCEPT !.op = "registerFile", !.pc = "resolved", !.arg = "u1", !.via = 1]
                                ELSE IF c = 2 THEN [NoCall EXCEPT !.op = "query", !.pc = "awaitQuery", !.arg = "Q", !.wait = 1]
                                ELSE NoCall]
  /\ connLog = [k \in CallIds |-> IF k = 1 THEN <<"Q">> ELSE <<>>]
  /\ regLog = [e \in CallIds |-> [u \in Urls |-> IF e = 1 /\ u = "u1" THEN 1 ELSE 0]]

\* InitReady is a state the manager reaches from construction.
ReadyReached ==
  /\ db = 1 /\ connection = 1 /\ initPromise = 1 /\ config = DefaultConfig
  /\ registeredFiles = {"u1"} /\ duckdbModule = LoadedWith(windowDuckdb) /\ ~initQueriesExecuted
  /\ initQueriesPromise = 0 /\ initQueries = <<>> /\ nFail = 0
  /\ acq = [a \in CallIds |-> IF a = 1 THEN [NoAcq EXCEPT !.pc = "resolved", !.eng = 1] ELSE NoAcq]
  /\ runs = [r \in CallIds |-> NoRun]
  /\ calls = [c \in CallIds |-> IF c = 1 THEN [NoCall EXCEPT !.op = "registerFile", !.pc = "resolved", !.arg = "u1", !.via = 1] ELSE NoCall]
  /\ connLog = [k \in CallIds |-> <<>>]
  /\ regLog = [e \in CallIds |-> [u \in Urls |-> IF e = 1 /\ u = "u1" THEN 1 ELSE 0]]

\* ------------------------------------------------------------------ claims
StartedAcqs == {a \in CallIds : acq[a].pc # "unused"}
FailedAcqs == {a \in CallIds : acq[a].pc = "rejected"}
InFlightAcqs == {a \in CallIds : AcqInFlight(a)}
PastInit(c) == calls[c].pc \in {"awaitSetup", "awaitQuery", "awaitRegister", "resolved"}
NoEngineErrors == {"InitFailed", "NotInitialized", "NoConnection"}

\* C1: with callers that only query and register files, at most one doInitialize()
\* is in progress and at most one has not failed (one is started, and only a failed
\* one is followed by another); every call that found no engine instance awaits
\* the acquisition initPromise refers to; and a call that awaited an acquisition
\* which succeeded is not rejected for want of an engine or a connection.
C1_SingleFlight ==
  /\ Cardinality(InFlightAcqs) <= 1
  /\ Cardinality(StartedAcqs \ FailedAcqs) <= 1
  /\ nStarted >= 1 => StartedAcqs # {}
  /\ \A c \in CallIds : calls[c].via # 0 =>
       /\ calls[c].via \in StartedAcqs
       /\ calls[c].via \notin FailedAcqs => initPromise = calls[c].via
       /\ acq[calls[c].via].pc = "resolved" => calls[c].err \notin NoEngineErrors

\* C1 witness: one acquisition was started, it succeeded, and two calls that
\* awaited it have gone on.
C1_Witness ==
  \E a \in CallIds :
    /\ StartedAcqs = {a}
    /\ acq[a].pc = "resolved"
    /\ Cardinality({c \in CallIds : calls[c].via = a /\ PastInit(c)}) >= 2

\* C2: a call goes on after its await of initialize() (without the error of a
\* failed acquisition) only when the engine instance and the connection exist.
C2_NoHalfBuilt ==
  [][\A c \in CallIds :
       (calls[c].pc = "awaitInit" /\ calls'[c].pc # "awaitInit" /\ calls'[c].err # "InitFailed")
         => (db # 0 /\ connection # 0)]_vars

\* C3: when doInitialize() fails, db, connection and initPromise are null.
C3_FailureLeavesAbsent ==
  [][\A a \in CallIds :
       (AcqInFlight(a) /\ acq'[a].pc = "rejected")
         => (db' = 0 /\ connection' = 0 /\ initPromise' = 0)]_vars

\* The setup statements connection k has received, in order.
IsSetupStmt(s) == s \in SetupStmts
SetupPart(k) == SelectSeq(connLog[k], IsSetupStmt)
IsPrefix(s, t) == Len(s) <= Len(t) /\ SubSeq(t, 1, Len(s)) = s
NoRunFailed == \A r \in CallIds : runs[r].pc # "rejected"

\* C4: on a ready connection, as long as no setup statement has failed, the
\* connection has received a prefix of the configured statements, each once and in
\* the configured order, all of them before any user statement; and a user
\* statement has been submitted only after the whole list has been sent and the
\* run has completed (initQueriesExecuted).
C4_SetupOnceInOrder ==
  NoRunFailed =>
    \A k \in CallIds :
      /\ IsPrefix(SetupPart(k), initQueries)
      /\ \A i, j \in 1..Len(connLog[k]) : (i < j /\ connLog[k][i] \in Sqls) => connLog[k][j] \in Sqls
      /\ (\E i \in 1..Len(connLog[k]) : connLog[k][i] \in Sqls) => (initQueriesExecuted /\ SetupPart(k) = initQueries)

\* C4 witness: with [A, B, C] configured, two overlapping queries: the second joined
\* the run the first had started; the connection has received A, B, C once and then
\* the first user statement, and the second query is about to submit its own.
C4_Witness ==
  /\ NoRunFailed
  /\ initQueries = <<"A", "B", "C">>
  /\ connLog[1] = <<"A", "B", "C", "Q">>
  /\ \E c, d \in CallIds : c # d /\ calls[c].pc = "awaitQuery" /\ runs[c].pc = "resolved" /\ calls[d].pc = "awaitSetup" /\ calls[d].wait = c

\* C5: on a ready connection, when a statement of a setup run fails, the run has
\* sent a prefix of the list it started with and sends nothing more, then or
\* later; initQueriesPromise is null and initQueriesExecuted false after the failure;
\* the queries awaiting the run reject with the initialization-query error; and a
\* query that calls executeInitQueries() when no run is recorded, none has
\* completed and the list is not empty starts a run with the first statement.
C5_FailedRunRetries ==
  [][/\ \A r \in CallIds :
          /\ (runs[r].pc = "running" /\ runs'[r].pc = "rejected") =>
               /\ IsPrefix(runs'[r].sent, runs[r].list0)
               /\ connLog' = connLog
               /\ initQueriesPromise' = 0
               /\ ~initQueriesExecuted'
          /\ runs[r].pc = "rejected" => runs'[r] = runs[r]
     /\ \A c \in CallIds :
          /\ (calls[c].pc = "awaitSetup" /\ calls[c].wait # 0 /\ runs[calls[c].wait].pc = "rejected" /\ calls'[c] # calls[c])
               => (calls'[c].pc = "rejected" /\ calls'[c].err = "SetupFailed")
          /\ (calls[c].pc = "awaitInit" /\ calls'[c].pc = "awaitSetup" /\ ~initQueriesExecuted /\ initQueriesPromise = 0 /\ initQueries # <<>>)
               => /\ runs'[c].pc = "running"
                  /\ runs'[c].sent = <<initQueries[1]>>
                  /\ connLog'[connection] = Append(connLog[connection], initQueries[1])
                  /\ initQueriesPromise' = c]_vars

\* C5 witness: B of [A, B, C] failed in the run of one query, which rejected; the
\* run of the next query has sent A again: the connection has received A, B, A.
C5_Witness ==
  \E r, q \in CallIds :
    /\ runs[r].pc = "rejected" /\ runs[r].list0 = <<"A", "B", "C">> /\ runs[r].sent = <<"A", "B">>
    /\ calls[r].pc = "rejected" /\ calls[r].err = "SetupFailed"
    /\ runs[q].pc = "running" /\ runs[q].sent = <<"A">>
    /\ connLog[1] = <<"A", "B", "A">>

\* C6: whenever a setup run fails, initQueriesPromise is null and
\* initQueriesExecuted is false afterwards.
C6_FailedSetupResets ==
  [][\A r \in CallIds :
       (runs[r].pc # "rejected" /\ runs'[r].pc = "rejected")
         => (initQueriesPromise' = 0 /\ ~initQueriesExecuted')]_vars

\* C7: as long as no registration has failed, an engine instance has received at
\* most one registerFileURL request per URL.
C7_RegisteredOnce ==
  (\A c \in CallIds : calls[c].err # "RegisterFailed")
    => \A e \in CallIds, u \in Urls : regLog[e][u] <= 1

\* The state of the setup as the manager records it.
SetupRunning == IF initQueriesPromise = 0 THEN FALSE ELSE runs[initQueriesPromise].pc = "running"
SetupState == IF initQueriesExecuted THEN "Done" ELSE IF SetupRunning THEN "Running" ELSE "NotStarted"

\* Call c was made right after a close() that had completed.
AfterClose(c) == IF c = 1 THEN FALSE ELSE calls[c - 1].op = "close" /\ calls[c - 1].pc = "resolved"

\* C8: with callers that make one call at a time, when close() completes the
\* manager has no engine instance, no connection, no initPromise, no registered
\* file, and the setup is NotStarted with an empty list; the query or registerFile
\* call made next starts an acquisition of its own; a registerFile call made next
\* that has completed has had its URL registered with the new engine instance;
\* and a query made next that has submitted its statement has, when statements are
\* configured, first run all of them on the new connection.
C8_CloseThenFresh ==
  [][/\ \A c \in CallIds :
          (calls'[c].op = "close" /\ calls[c].pc # "resolved" /\ calls'[c].pc = "resolved")
            => /\ ~IsInitialized'
               /\ connection' = 0
               /\ initPromise' = 0
               /\ registeredFiles' = {}
               /\ SetupState' = "NotStarted"
               /\ initQueries' = <<>>
     /\ \A c \in CallIds :
          (AfterClose(c) /\ calls[c].op = "none" /\ calls'[c].op \in {"query", "registerFile"})
            => (calls'[c].via = c /\ initPromise' = c /\ AcqInFlight(c)')
     /\ \A c \in CallIds :
          (AfterClose(c)' /\ calls'[c].op = "registerFile" /\ calls'[c].pc = "resolved")
            => (regLog'[c][calls'[c].arg] = 1 /\ acq'[c].pc = "resolved")
     /\ \A c \in CallIds :
          (AfterClose(c)' /\ calls'[c].op = "query" /\ calls[c].pc = "awaitSetup" /\ calls'[c].pc = "awaitQuery")
            => /\ acq'[c].pc = "resolved"
               /\ connection' = c
               /\ connLog'[c] = initQueries' \o <<calls'[c].arg>>
               /\ initQueries' # <<>> => (runs'[c].pc = "resolved" /\ runs'[c].sent = initQueries')]_vars

\* C8 witness: a query with [A, B, C] configured, then close(), then the list
\* configured again and a second query: a second connection was built and has
\* received A, B, C and the user statement.
C8_Witness ==
  /\ calls[1].op = "query" /\ calls[1].pc = "resolved" /\ connLog[1] = <<"A", "B", "C", "Q">>
  /\ calls[2].op = "close" /\ calls[2].pc = "resolved"
  /\ calls[3].op = "query" /\ calls[3].pc = "resolved" /\ connLog[3] = <<"A", "B", "C", "Q">>
  /\ db = 3 /\ connection = 3 /\ runs[3].pc = "resolved"

\* C9: a step that is not part of any call (a configuration call) leaves the
\* list of setup statements unchanged when the setup is Running or Done.
C9_ListFrozen ==
  [][(calls' = calls /\ SetupState # "NotStarted") => initQueries' = initQueries]_vars

\* C10: a query submits its statement only when the manager has its engine
\* instance and its connection and initQueriesExecuted is true.
C10_SubmitWhenReady ==
  [][\A c \in CallIds :
       (calls[c].pc = "awaitSetup" /\ calls'[c].pc = "awaitQuery")
         => (IsInitialized /\ connection # 0 /\ initQueriesExecuted)]_vars

\* C11: with setup statements configured, registerFile requests registerFileURL
\* from the engine only when initQueriesExecuted is true.
C11_RegisterAfterSetup ==
  [][\A c \in CallIds :
       (calls[c].pc = "awaitInit" /\ calls'[c].pc = "awaitRegister" /\ initQueries # <<>>)
         => initQueriesExecuted]_vars

\* C12: in every reachable state at most one doInitialize() execution is in
\* progress (the first half of the claim; the claim adds that at most one engine
\* instance is alive).
C12_OneAcquisition == Cardinality(InFlightAcqs) <= 1

\* The setup runs in progress.
InFlightRuns == {r \in CallIds : RunInFlight(r)}

\* C13: in every reachable state at most one setup run is in progress (each run
\* in progress has exactly one statement outstanding, so this also bounds the
\* outstanding setup statements).
C13_OneSetupRun == Cardinality(InFlightRuns) <= 1

\* C14: initQueriesExecuted becomes true only in a step in which the list is
\* empty or a setup run completes that has submitted exactly the statements of
\* the list as it is now, in order.
C14_DoneMeansAllRun ==
  [][(~initQueriesExecuted /\ initQueriesExecuted')
       => \/ initQueries' = <<>>
          \/ \E r \in CallIds : runs[r].pc = "running" /\ runs'[r].pc = "resolved" /\ runs'[r].sent = initQueries']_vars

\* C15: an acquisition that initPromise no longer refers to (close() has reset it
\* while the acquisition was in progress) never assigns this.db or this.connection.
C15_SupersededNeverInstalls ==
  [][\A a \in CallIds :
       (AcqInFlight(a) /\ initPromise # a) => ~(db' = a /\ db # a) /\ ~(connection' = a /\ connection # a)]_vars

\* C16: a setup run that initQueriesPromise no longer refers to (close() has reset
\* it while the run was in progress) never sets initQueriesExecuted to true.
C16_SupersededRunNeverDone ==
  [][\A r \in CallIds :
       (runs[r].pc = "running" /\ initQueriesPromise # r /\ runs'[r].pc # "running")
         => initQueriesExecuted' = initQueriesExecuted]_vars

\* C17: when close() completes, the fields of the manager have the values they
\* have after construction, the configuration and the memoized module included.
C17_CloseEqualsFresh ==
  [][\A c \in CallIds :
       (calls'[c].op = "close" /\ calls[c].pc # "resolved" /\ calls'[c].pc = "resolved")
         => /\ config' = DefaultConfig
            /\ duckdbModule' = NoModule
            /\ initPromise' = 0 /\ registeredFiles' = {}
            /\ ~initQueriesExecuted' /\ initQueriesPromise' = 0 /\ initQueries' = <<>>]_vars

\* No acquisition has ever been started.
NeverInitialized == StartedAcqs = {}

\* C18: with callers that make one call at a time, a close() called on a manager
\* that was never initialized, or right after a close() that has completed,
\* resolves in the call itself (nothing is requested from the engine and awaited),
\* without error, and leaves the manager without engine instance, connection,
\* initPromise, registered files or setup state.
C18_CloseIdempotent ==
  [][\A c \in CallIds :
       (calls[c].op = "none" /\ calls'[c].op = "close" /\ (NeverInitialized \/ AfterClose(c)'))
         => /\ calls'[c].pc = "resolved" /\ calls'[c].err = ""
            /\ nFail' = nFail
            /\ ~IsInitialized' /\ connection' = 0 /\ initPromise' = 0
            /\ registeredFiles' = {}
            /\ SetupState' = "NotStarted" /\ initQueries' = <<>>
            /\ <<db, connection, initPromise, registeredFiles>> = <<0, 0, 0, {}>>]_vars

\* C18 witness: a registerFile call built the engine, close() completed, and a
\* second close() has completed too.
C18_Witness ==
  /\ calls[1].op = "registerFile" /\ calls[1].pc = "resolved"
  /\ calls[2].op = "close" /\ calls[2].pc = "resolved"
  /\ calls[3].op = "close" /\ calls[3].pc = "resolved"
  /\ ~IsInitialized /\ connection = 0

\* C19: the configuration changes only while there is no engine instance, and
\* then to the merge of a partial configuration into it: each field is the one
\* given, or, when not given, the one it had.
C19_ConfigureMerges ==
  [][/\ db # 0 => config' = config
     /\ config' # config =>
          /\ DOMAIN config' = DOMAIN config
          /\ \E partial \in AllPartialConfigs :
               \A k \in DOMAIN config : config'[k] = IF k \in DOMAIN partial THEN partial[k] ELSE config[k]]_vars

\* C19 witness: only the cdn was configured, the version kept its value, the
\* engine instance exists and a registerFile call has completed.
C19_Witness ==
  /\ config = [version |-> "v1", cdn |-> "c2"]
  /\ IsInitialized
  /\ \E c \in CallIds : calls[c].op = "registerFile" /\ calls[c].pc = "resolved"

\* C20: on a ready connection, when the user statement of a query is rejected
\* the query rejects with the query-execution error and no field of the manager,
\* acquisition or setup run changes; a query that calls executeInitQueries() once
\* the setup is done starts no run; and every user statement is submitted to the
\* one connection, no further acquisition being started.
C20_QueryFailureKeepsReady ==
  [][/\ \A c \in CallIds :
          (calls[c].pc = "awaitQuery" /\ calls'[c].pc = "rejected")
            => (calls'[c].err = "QueryFailed" /\ mgr' = mgr /\ acq' = acq /\ runs' = runs)
     /\ \A c \in CallIds :
          (calls[c].pc = "awaitInit" /\ calls'[c].pc = "awaitSetup" /\ initQueriesExecuted)
            => (runs' = runs /\ calls'[c].wait = 0 /\ initQueriesExecuted')
     /\ \A c \in CallIds :
          (calls[c].pc = "awaitSetup" /\ calls'[c].pc = "awaitQuery")
            => (calls'[c].wait = connection /\ connection' = connection /\ IsInitialized)
     /\ acq' = acq]_vars

\* C20 witness: after the setup run of [A, B, C], the user statement of one query
\* was rejected and that of another succeeded on the same connection, which has
\* received A, B, C once; one acquisition, one setup run.
C20_Witness ==
  \E c, d \in CallIds :
    /\ calls[c].op = "query" /\ calls[c].pc = "rejected" /\ calls[c].err = "QueryFailed"
    /\ calls[d].op = "query" /\ calls[d].pc = "resolved"
    /\ connLog[1] = <<"A", "B", "C", "Q", "Q">>
    /\ connection = 1 /\ initQueriesExecuted
    /\ StartedAcqs = {1} /\ Cardinality({r \in CallIds : runs[r].pc # "unused"}) = 1

\* C21: with callers that make one call at a time, when registerFileURL is
\* rejected the registerFile call rejects with the registration error and no
\* field of the manager changes (the URL is not added); and a registerFile call
\* whose initialize() did not fail and that finds an engine instance and its URL
\* not in the set requests registerFileURL from that instance.
C21_RegisterFailureAllowsRetry ==
  [][/\ \A c \in CallIds :
          (calls[c].pc = "awaitRegister" /\ calls'[c].pc = "rejected")
            => /\ calls'[c].err = "RegisterFailed"
               /\ mgr' = mgr /\ acq' = acq /\ runs' = runs
               /\ calls[c].arg \notin registeredFiles'
     /\ \A c \in CallIds :
          (calls[c].op = "registerFile" /\ calls[c].pc = "awaitInit" /\ calls'[c].pc # "awaitInit" /\ calls'[c].err # "InitFailed" /\ db # 0 /\ calls[c].arg \notin registeredFiles)
            => /\ calls'[c].pc = "awaitRegister"
               /\ regLog'[db][calls[c].arg] = regLog[db][calls[c].arg] + 1]_vars

\* C21 witness: the registration of u1 was rejected in one call; a later call for
\* u1 sent a second request to the same engine instance, which succeeded.
C21_Witness ==
  \E c, d \in CallIds :
    /\ c < d
    /\ calls[c].op = "registerFile" /\ calls[c].arg = "u1" /\ calls[c].pc = "rejected" /\ calls[c].err = "RegisterFailed"
    /\ calls[d].op = "registerFile" /\ calls[d].arg = "u1" /\ calls[d].pc = "resolved"
    /\ db = c /\ regLog[c]["u1"] = 2 /\ registeredFiles = {"u1"}

\* The user statements connection k has received.
IsUserStmt(s) == s \in Sqls
UserPart(k) == SelectSeq(connLog[k], IsUserStmt)

\* The queries whose user statement has been submitted.
SubmittedQueries == {c \in CallIds : calls[c].op = "query" /\ (calls[c].pc \in {"awaitQuery", "resolved"} \/ calls[c].err = "QueryFailed")}

\* C22: on a ready connection, a query waiting on a setup run goes on only when
\* the run has settled; when the run has failed, the query rejects with the
\* initialization-query error and nothing is submitted; and the connection has
\* received exactly one user statement per query that went past the setup step,
\* none for the queries rejected there.
C22_FailedSetupBlocksQueries ==
  [][/\ \A c \in CallIds :
          (calls[c].pc = "awaitSetup" /\ calls[c].wait # 0 /\ calls'[c] # calls[c])
            => /\ Settled(runs[calls[c].wait].pc)
               /\ runs[calls[c].wait].pc = "rejected"
                    => (calls'[c].pc = "rejected" /\ calls'[c].err = "SetupFailed" /\ connLog' = connLog)
     /\ Len(UserPart(1)') = Cardinality(SubmittedQueries')
     /\ \A c \in CallIds : calls'[c].err = "SetupFailed" => c \notin SubmittedQueries']_vars

\* C22 witness: a setup run failed; the query that started it and the query that
\* joined it have both rejected with the initialization-query error, and the
\* connection has received the statements of the run and no user statement.
C22_Witness ==
  \E r, d \in CallIds :
    /\ r # d
    /\ runs[r].pc = "rejected" /\ runs[d].pc = "unused"
    /\ calls[r].pc = "rejected" /\ calls[r].err = "SetupFailed"
    /\ calls[d].pc = "rejected" /\ calls[d].err = "SetupFailed"
    /\ connLog[1] = runs[r].sent /\ UserPart(1) = <<>>

\* C23: a doInitialize() execution starts only in the step in which a query or
\* registerFile call is made, as that call's acquisition; a setup statement is
\* submitted only in a step of a query call (the call starting the run, or the run
\* of a query that is awaiting it); and before the first call nothing has been
\* started or submitted.
C23_Lazy ==
  [][/\ \A a \in CallIds :
          (acq[a].pc = "unused" /\ acq'[a].pc # "unused")
            => (calls[a].op = "none" /\ calls'[a].op \in {"query", "registerFile"})
     /\ \A k \in CallIds :
          (connLog'[k] # connLog[k] /\ connLog'[k][Len(connLog'[k])] \in SetupStmts)
            => \/ \E c \in CallIds : calls[c].op = "query" /\ calls[c].pc = "awaitInit" /\ calls'[c].pc = "awaitSetup" /\ runs'[c].pc = "running"
               \/ \E r \in CallIds : runs[r].pc = "running" /\ runs'[r].sent # runs[r].sent /\ calls[r].op = "query" /\ calls[r].pc = "awaitSetup"
     /\ nStarted' = 0 => (StartedAcqs' = {} /\ duckdbModule' = NoModule /\ ~IsInitialized' /\ \A k \in CallIds : connLog'[k] = <<>>)]_vars

\* C23 witness: the configuration and the statement list were set and close() was
\* called and completed on a new manager: no acquisition was started; the list that
\* close() has emptied was configured again.
C23_Witness ==
  /\ calls[1].op = "close" /\ calls[1].pc = "resolved" /\ nStarted = 1
  /\ config = [version |-> "v2", cdn |-> "c2"]
  /\ initQueries = <<"A", "B", "C">>
  /\ StartedAcqs = {} /\ duckdbModule = NoModule /\ ~IsInitialized
  /\ \A k \in CallIds : connLog[k] = <<>>

\* The manager has no engine instance, no connection, no initPromise, no
\* registered file and no setup state.
FullyReset ==
  /\ db = 0 /\ connection = 0 /\ initPromise = 0
  /\ registeredFiles = {}
  /\ ~initQueriesExecuted /\ initQueriesPromise = 0 /\ initQueries = <<>>

\* C24: every step of a close() call that changes a field of the manager leaves
\* the manager fully reset: no state in between can be observed.
C24_CloseAtomic ==
  [][\A c \in CallIds :
       (calls'[c].op = "close" /\ calls'[c] # calls[c] /\ mgr' # mgr) => FullyReset']_vars

\* C25: every URL in registeredFiles has been requested from the engine
\* instance the manager holds now (and the set is empty when it holds none).
C25_FilesOfCurrentEngine ==
  \A u \in registeredFiles : IF db = 0 THEN FALSE ELSE regLog[db][u] >= 1

\* C26: the result a query has returned has as columns the names of the schema
\* fields in order, as rowCount the number of rows of the table, and rowCount
\* rows of numCols cells each; cell (i, j) is the value at row i of column j, or
\* null when the column is absent or the value is null or undefined, and only
\* then: 0, false and the empty string are kept.
C26_ResultShape ==
  \A c \in CallIds :
    (calls[c].op = "query" /\ calls[c].pc = "resolved") =>
      LET t == calls[c].raw
          q == calls[c].ret
      IN /\ Len(q.columns) = Len(t.fields)
         /\ \A k \in 1..Len(t.fields) : q.columns[k] = t.fields[k].name
         /\ q.rowCount = t.numRows
         /\ Len(q.rows) = q.rowCount
         /\ \A i \in 1..t.numRows :
              /\ Len(q.rows[i]) = t.numCols
              /\ \A j \in 1..t.numCols :
                   IF ~t.children[j].present THEN q.rows[i][j] = "null"
                   ELSE IF t.children[j].data[i] \in {"null", "undefined"} THEN q.rows[i][j] = "null"
                   ELSE q.rows[i][j] = t.children[j].data[i] /\ q.rows[i][j] # "null"

\* C26 witness: a query returned a result of two rows and two columns whose cells
\* include a value replaced by null and the values 0, false and "" kept.
C26_Witness ==
  \E c \in CallIds :
    /\ calls[c].op = "query" /\ calls[c].pc = "resolved"
    /\ calls[c].raw.children = <<[present |-> TRUE, data |-> <<"undefined", "0">>], [present |-> TRUE, data |-> <<"false", "">>]>>
    /\ calls[c].ret = [columns |-> <<"a", "b">>, rows |-> <<<<"null", "false">>, <<"0", "">>>>, rowCount |-> 2]

\* C27: loadDuckDBModule() returns the memoized module when there is one, and
\* otherwise memoizes the first source that succeeds, so that every later call
\* returns that same module: a module that has been memoized is never replaced.
C27_MemoizedModuleKept ==
  [][duckdbModule # NoModule => duckdbModule' = duckdbModule]_vars

\* A message holds the fragments of another one, in order and adjacent.
Contains(message, part) == \E k \in 0..(Len(message) - Len(part)) : SubSeq(message, k + 1, k + Len(part)) = part

\* The acquisitions that failed because both imports of the module failed.
LoadFailed == {a \in CallIds : acq[a].pc = "rejected" /\ Contains(acq[a].cause, <<" 3. CDN import: ">>)}

\* C28: with no module memoized and no global binding, when the dynamic import
\* and the CDN import both fail, the acquisition fails with one error whose
\* message holds the reason of the dynamic import and the reason of the CDN
\* import, nothing is memoized or published as window.duckdb, and the next call
\* starts the chain again at the dynamic import.
C28_BothImportsFail ==
  [][/\ \A a \in CallIds :
          (acq[a].pc = "cdn" /\ acq'[a].pc = "rejected")
            => /\ Contains(acq'[a].cause, ImportReason)
               /\ \E out \in AllOutcomes \ {"ok"} : Contains(acq'[a].cause, Reason(out))
               /\ duckdbModule' = NoModule /\ windowDuckdb' = NoModule
               /\ db' = 0 /\ initPromise' = 0
     /\ \A c \in CallIds :
          (LoadFailed # {} /\ duckdbModule = NoModule /\ calls[c].op = "none" /\ calls'[c].op \in {"query", "registerFile"})
            => (initPromise' = c /\ acq'[c].pc = "import")]_vars

\* C28 witness: an acquisition failed with both imports failing, and the next call
\* went through the chain again and built the connection.
C28_Witness ==
  \E a, b \in CallIds :
    /\ a \in LoadFailed /\ acq[a].cause = LoadError(ImportReason, Reason("err"))
    /\ calls[a].pc = "rejected"
    /\ acq[b].pc = "resolved" /\ connection = b /\ duckdbModule # NoModule

\* C29: when a query reaches the setup step on a ready connection with no setup
\* statement configured (and no setup run started), the setup state becomes Done
\* in that step, no run is started and nothing is sent to the connection; from
\* then on, until close() resets the state, configureInitQueries leaves the list
\* empty, and the connection never receives a setup statement.
C29_EmptySetupIsDone ==
  [][/\ \A c \in CallIds :
          (calls[c].op = "query" /\ calls[c].pc = "awaitInit" /\ calls'[c].pc = "awaitSetup"
             /\ connection # 0 /\ ~initQueriesExecuted /\ initQueriesPromise = 0 /\ initQueries = <<>>)
            => /\ initQueriesExecuted' /\ SetupState' = "Done"
               /\ initQueriesPromise' = 0 /\ runs' = runs
               /\ connLog' = connLog
     /\ (initQueriesExecuted /\ initQueries = <<>> /\ initQueriesExecuted')
            => /\ initQueries' = <<>>
               /\ connection' # 0 => SetupPart(connection)' = <<>>]_vars

\* C29 witness: setup is Done with no statement configured, and the connection has
\* answered a user statement without having received any other statement.
C29_Witness ==
  /\ initQueriesExecuted /\ initQueries = <<>> /\ connection # 0
  /\ connLog[connection] = <<"Q">>
  /\ \E c \in CallIds : calls[c].op = "query" /\ calls[c].pc = "resolved"

\* C30: a failed acquisition reports the cross-origin error exactly when the step
\* that failed is the worker fetch and the message of its failure indicates a
\* cross-origin violation; every other failure is reported as the generic error.
C30_CorsOnlyForWorkerFetch ==
  [][\A a \in CallIds :
       (acq[a].pc # "rejected" /\ acq'[a].pc = "rejected")
         => (acq'[a].err = "CorsBlocked" <=> (acq[a].pc = "worker" /\ Includes(acq'[a].cause, "CORS")))]_vars

\* C36: the setup state is Done only while a connection is open:
\* initQueriesExecuted is never true in a state where connection is null.
C36_DoneOnlyWithConnection == initQueriesExecuted => connection # 0

\* C37: the version an acquisition puts in the URL of the CDN module is the
\* version that was configured when the acquisition started, whatever configure()
\* calls are made while it is in flight.
C37_VersionOfStart ==
  [][\A a \in CallIds :
       (acq[a].pc = "import" /\ acq'[a].pc = "cdn") => acq'[a].cdnVersion = acq[a].version0]_vars

\* C39: the failure handler of an acquisition, or of a setup run, clears only its
\* own pending promise: when it fails while initPromise (initQueriesPromise)
\* refers to a newer acquisition (setup run) that is in progress, the reference
\* is left as it is.
C39_FailureClearsOwnPromise ==
  [][/\ \A a \in CallIds :
          (acq[a].pc # "rejected" /\ acq'[a].pc = "rejected" /\ initPromise \notin {0, a} /\ AcqInFlight(initPromise))
            => initPromise' = initPromise
     /\ \A r \in CallIds :
          (runs[r].pc # "rejected" /\ runs'[r].pc = "rejected" /\ initQueriesPromise \notin {0, r} /\ RunInFlight(initQueriesPromise))
            => initQueriesPromise' = initQueriesPromise]_vars

\* The close() calls rejected because a release failed.
FailedCloses == {c \in CallIds : calls[c].op = "close" /\ calls[c].pc = "rejected"}

\* C40: with callers that make one call at a time, when connection.close() or
\* db.terminate() fails inside close(), close() rejects and performs none of the
\* later steps: initPromise, the registered files and the setup state keep their
\* values and the handle whose release failed stays set; a later close() awaits
\* the release of that handle again.
C40_FailedCloseKeepsState ==
  [][/\ \A c \in CallIds :
          (calls[c].op = "close" /\ calls[c].pc \in {"awaitConnClose", "awaitTerminate"} /\ calls'[c].pc \notin {calls[c].pc, "awaitTerminate", "resolved"})
            => /\ calls'[c].pc = "rejected"
               /\ initPromise' = initPromise /\ registeredFiles' = registeredFiles
               /\ initQueriesExecuted' = initQueriesExecuted /\ initQueriesPromise' = initQueriesPromise
               /\ initQueries' = initQueries
               /\ db' = db /\ db # 0
               /\ calls[c].pc = "awaitConnClose" => (connection' = connection /\ connection # 0)
     /\ \A c \in CallIds :
          (calls[c].op = "none" /\ calls'[c].op = "close" /\ FailedCloses # {})
            => /\ connection # 0 => (calls'[c].pc = "awaitConnClose" /\ calls'[c].wait = connection)
               /\ (connection = 0 /\ db # 0) => (calls'[c].pc = "awaitTerminate" /\ calls'[c].wait = db)]_vars

\* C40 witness: a close() was rejected at db.terminate() and the next close()
\* terminated the instance and completed.
C40_Witness ==
  \E c, d \in CallIds :
    /\ c < d /\ c \in FailedCloses /\ calls[c].err = "CloseFailed"
    /\ calls[d].op = "close" /\ calls[d].pc = "resolved"
    /\ db = 0 /\ connection = 0

\* The executions of run() on embed e: all of them, and those in progress.
RunsOf(e) == {r \in RunIds : embedRuns[r].embed = e}
RunsInProgress(e) == {r \in RunsOf(e) : RunInProgress(r)}

\* C31: when only run() is called on an embed, a run() called while the state is
\* 'loading' starts nothing: the embed is in 'loading' exactly while one
\* execution of run() is in progress, there is never a second one, and the embed
\* has called query at most once per execution, so that overlapping calls of
\* run() issue one query.
C31_LoadingRunReturns ==
  \A e \in EmbedIds :
    /\ Cardinality(RunsInProgress(e)) <= 1
    /\ embeds[e].state = "loading" <=> RunsInProgress(e) # {}
    /\ managerCalls[e].query <= Cardinality(RunsOf(e))
    /\ RunsInProgress(e) # {} => managerCalls[e].query <= Cardinality(RunsOf(e) \ RunsInProgress(e)) + 1

\* C31 witness: an execution of run() awaits its query, the embed is in 'loading'
\* (where further calls of run() return at once) and one query has been issued.
C31_Witness ==
  \E e \in EmbedIds, r \in RunIds :
    /\ embedRuns[r].embed = e /\ embedRuns[r].pc = "awaitQuery"
    /\ embeds[e].state = "loading"
    /\ managerCalls[e].query = 1 /\ managerCalls[e].registerFile = 2

\* The embeds in the tracking list allEmbeds.
Tracked == {workbench.allEmbeds[i] : i \in 1..Len(workbench.allEmbeds)}

\* C32: every SQLWorkbench.destroy() leaves each embed that was tracked
\* destroyed and each other embed as it was, leaves the tracking list empty, also
\* when it was empty already, and requests one duckDBManager.close(); no
\* rejection of close() is left unhandled: each one is caught and logged.
C32_DestroyAll ==
  /\ [](workbench.unhandled = 0)
  /\ [](workbench.closeRequests = workbench.destroys /\ workbench.closePending + workbench.logged <= workbench.closeRequests)
  /\ [][workbench'.destroys # workbench.destroys =>
          /\ \A e \in EmbedIds : IF e \in Tracked THEN embeds'[e].destroyed /\ ~embeds'[e].hasUi
                                 ELSE embeds'[e] = embeds[e]
          /\ workbench'.allEmbeds = <<>>
          /\ workbench'.closeRequests = workbench.closeRequests + 1
          /\ workbench'.logged = workbench.logged]_vars
  /\ [][workbench'.logged # workbench.logged =>
          /\ workbench'.logged = workbench.logged + 1
          /\ workbench'.closePending = workbench.closePending - 1
          /\ workbench'.allEmbeds = workbench.allEmbeds /\ embeds' = embeds]_vars

\* C32 witness: destroy() was called twice in a row on two tracked embeds, the
\* rejection of a close() was caught and logged, and no embed is tracked.
C32_Witness ==
  /\ workbench.destroys = 2
  /\ workbench.logged >= 1
  /\ workbench.allEmbeds = <<>>
  /\ \A e \in EmbedIds : embeds[e].destroyed
  /\ \A r \in RunIds : embedRuns[r].pc = "unused"

\* C33: in every state of an embed that has its buttons, the Run button and the
\* Reset button are each disabled exactly when the state of the embed is
\* 'loading'.
C33_ButtonsFollowState ==
  \A e \in EmbedIds :
    embeds[e].hasUi =>
      /\ embeds[e].runDisabled <=> embeds[e].state = "loading"
      /\ embeds[e].resetDisabled <=> embeds[e].state = "loading"

\* C33 witness: a run() of an embed has ended in success or error, after which
\* the buttons were enabled, and a second one is in progress, the state being
\* 'loading' and both buttons disabled.
C33_Witness ==
  \E e \in EmbedIds :
    /\ embeds[e].hasUi
    /\ embeds[e].state = "loading" /\ embeds[e].runDisabled /\ embeds[e].resetDisabled
    /\ embedRuns[1].embed = e /\ embedRuns[1].pc = "done"
    /\ embedRuns[2].embed = e /\ RunInProgress(2)

\* What run() on embed e does when it finds no SQL: the output shows the error
\* 'No SQL query to execute', the state is the one before, no execution of run()
\* has started and no call to duckDBManager was made.
NoSqlOutcome(e) ==
  /\ embeds'[e].output = "No SQL query to execute"
  /\ embeds'[e].state = embeds[e].state
  /\ embeds'[e].state # "loading"
  /\ embedRuns' = embedRuns
  /\ managerCalls' = managerCalls

\* In this state run() on embed e, whatever isInitialized() answers, returns
\* with the outcome above.
RunGivesNoSqlError(e) ==
  \A initialized \in BOOLEAN :
    /\ ENABLED Run(e, initialized)
    /\ ~ENABLED (Run(e, initialized) /\ ~NoSqlOutcome(e))

\* C34 as stated: in every state, run() on an embed whose editor (which a destroyed
\* embed has not) holds a text that is empty or only whitespace shows the 'No SQL
\* query to execute' error, leaves the state unchanged and makes no call to
\* duckDBManager.
C34_NoSqlError_AnyState ==
  \A e \in EmbedIds :
    (embeds[e].hasUi /\ Trim(GetCode(embeds[e])) = "") => RunGivesNoSqlError(e)

\* C34, amended: a run() on an embed that is not in 'loading' and whose editor
\* text is empty or only whitespace shows the 'No SQL query to execute' error,
\* leaves the state unchanged and makes no call to duckDBManager.
C34_NoSqlError ==
  \A e \in EmbedIds :
    (embeds[e].hasUi /\ embeds[e].state # "loading" /\ Trim(GetCode(embeds[e])) = "") => RunGivesNoSqlError(e)

\* C34 witness: an embed that ran a statement before has only whitespace in its
\* editor and shows the error of a run() that found no SQL.
C34_Witness ==
  \E e \in EmbedIds :
    /\ embeds[e].hasUi
    /\ embeds[e].code = "  "
    /\ embeds[e].output = "No SQL query to execute"
    /\ embeds[e].state = "success"
    /\ managerCalls[e].query = 1

\* C35: when every promise a run() awaits settles, an embed in 'loading' is
\* eventually in 'success' or 'error'; an embed is in 'loading' only while an
\* execution of run() on it is in progress; and the step in which an execution
\* ends puts the embed into 'success' or 'error': 'error' when it ends at a
\* registration or after a rejection, 'success' when it ends after the query
\* resolved.
C35_LoadingEnds ==
  /\ \A e \in EmbedIds : (embeds[e].state = "loading") ~> (embeds[e].state \in {"success", "error"})
  /\ [](\A e \in EmbedIds : embeds[e].state = "loading" => RunsInProgress(e) # {})
  /\ [][\A r \in RunIds :
          (RunInProgress(r) /\ ~RunInProgress(r)') =>
            /\ embeds'[embedRuns[r].embed].state \in {"success", "error"}
            /\ embedRuns[r].pc \in {"awaitRegister", "delayError"} => embeds'[embedRuns[r].embed].state = "error"
            /\ embedRuns[r].pc = "delaySuccess" => embeds'[embedRuns[r].embed].state = "success"]_vars

\* C35 witness: a run() of a statement over two files has ended after both
\* registrations and the query resolved, and the embed is in 'success'.
C35_Witness ==
  \E e \in EmbedIds :
    /\ embedRuns[1].embed = e /\ embedRuns[1].pc = "done"
    /\ embedRuns[2].pc = "unused"
    /\ managerCalls[e].registerFile = 2 /\ managerCalls[e].query = 1
    /\ embeds[e].state = "success" /\ embeds[e].output = "result"

\* C38: in every sequence of run() and reset() an embed has at most one
\* execution of run() in progress, and the step in which an execution ends leaves
\* an embed that a reset() put into 'idle' in 'idle'.
C38_OneRunAtATime ==
  /\ [](\A e \in EmbedIds : Cardinality(RunsInProgress(e)) <= 1)
  /\ [][\A r \in RunIds :
          (RunInProgress(r) /\ ~RunInProgress(r)' /\ embeds[embedRuns[r].embed].state = "idle")
            => embeds'[embedRuns[r].embed].state = "idle"]_vars

====
